---- MODULE Spec2Model ----
(***************************************************************************)
(* Leukemia classification service: the CvT network (model.py), the        *)
(* predictor (predict.py) and the HTTP transport (medhamanthan/main.py).   *)
(*                                                                         *)
(* Tensor shapes are modelled exactly (the real kernel, stride, padding,   *)
(* channel and window constants).  Tensor contents are modelled at a       *)
(* reduced resolution: a 1 x GridW row of fixed-point activations, each a  *)
(* residue modulo ValMod, or NaN.                                          *)
(***************************************************************************)
EXTENDS Integers, Sequences, FiniteSets, TLC

VARIABLES startup, leukemia_predictor, req, attn, fw, db

vars == <<startup, leukemia_predictor, req, attn, fw, db>>

(***************************************************************************)
(* Bounds of the model.                                                    *)
(***************************************************************************)
GridW == 3
ValMod == 7
NumRequests == 2
MaxBatch == 2
MaxTokens == 6
MaxWindow == 3

Grid == 1..GridW
NaN == 0 - 1

(***************************************************************************)
(* Exceptions and call outcomes.                                           *)
(***************************************************************************)
Raise(type, msg) == [kind |-> "raise", type |-> type, msg |-> msg]
Return(value) == [kind |-> "return", value |-> value]

(***************************************************************************)
(* model.py: configuration constants.                                      *)
(***************************************************************************)
in_channels == 3
num_classes == 2
num_heads == 4
block_size == 3
\* drop_prob = 0.1, in tenths
drop_prob == 1

Stage1Cfg == [cin |-> in_channels, cout |-> 32, kernel_size |-> 7, stride |-> 1,
              padding |-> 3, window_size |-> 32]
Stage2Cfg == [cin |-> 32, cout |-> 96, kernel_size |-> 3, stride |-> 2,
              padding |-> 1, window_size |-> 32]
Stage3Cfg == [cin |-> 96, cout |-> 192, kernel_size |-> 3, stride |-> 4,
              padding |-> 1, window_size |-> 14]

(***************************************************************************)
(* Learned layers on the reduced-resolution contents: an affine map with   *)
(* the layer's weight theta (nn.Conv2d, nn.Linear, nn.LayerNorm).          *)
(***************************************************************************)
Affine(theta, v) ==
    [j \in Grid |-> IF v[j] = NaN THEN NaN ELSE (theta * v[j] + 1) % ValMod]

Add(u, v) ==
    [j \in Grid |-> IF u[j] = NaN \/ v[j] = NaN THEN NaN ELSE (u[j] + v[j]) % ValMod]

RECURSIVE SumTo(_, _)
SumTo(v, n) == IF n = 0 THEN 0 ELSE v[n] + SumTo(v, n - 1)

HasNaN(v) == \E j \in Grid : v[j] = NaN

ConvOutNoPlusOne(h, k, s, p) == (h + 2 * p - k) \div s

\* nn.Conv2d output extent: floor((h + 2p - k) / s) + 1
ConvOut(h, k, s, p) == ((h + 2 * p - k) \div s) + 1

(***************************************************************************)
(* SEBlock.forward: x * sigmoid(fc2(relu(fc1(avgpool(x))))); the shape is  *)
(* kept.                                                                   *)
(***************************************************************************)
SEBlock_forward(theta, x) ==
    LET y == IF HasNaN(x.v) THEN NaN ELSE (theta * (SumTo(x.v, GridW) \div GridW) + 1) % ValMod
    IN  [x EXCEPT !.v = [j \in Grid |-> IF y = NaN THEN NaN ELSE (x.v[j] * y) % ValMod]]

(***************************************************************************)
(* ConvolutionalTokenEmbedding.forward: depthwise conv (groups = cin, so   *)
(* the input must have cin channels), pointwise conv, flatten to tokens,   *)
(* layer norm.  Returns the tokens with h and w.                           *)
(***************************************************************************)
ConvolutionalTokenEmbedding_forward(cfg, theta, x) ==
    IF x.c # cfg.cin
    THEN Raise("RuntimeError", <<"expected input to have ", ToString(cfg.cin),
                                " channels, but got ", ToString(x.c)>>)
    ELSE IF x.h + 2 * cfg.padding < cfg.kernel_size \/ x.w + 2 * cfg.padding < cfg.kernel_size
    THEN Raise("RuntimeError", <<"kernel size can't be greater than actual input size">>)
    ELSE LET h == ConvOut(x.h, cfg.kernel_size, cfg.stride, cfg.padding)
             w == ConvOut(x.w, cfg.kernel_size, cfg.stride, cfg.padding)
         IN  Return([b |-> x.b, n |-> h * w, c |-> cfg.cout, h |-> h, w |-> w,
                     v |-> Affine(theta, Affine(theta, Affine(theta, x.v)))])

(***************************************************************************)
(* SparseSelfAttention.forward, lines 49-59: the qkv reshape needs C to    *)
(* split over the heads; then the window-divisibility check.               *)
(***************************************************************************)
WindowError(N, window_size) ==
    Raise("ValueError", <<"Input sequence length N (", ToString(N),
                          ") must be divisible by window_size (", ToString(window_size), ")">>)

SparseSelfAttention_truncate(N, C, heads, window_size) ==
    IF 3 * heads * (C \div heads) # 3 * C
    THEN Raise("RuntimeError", <<"shape is invalid for input of size ", ToString(N * 3 * C)>>)
    ELSE Return(N - (N % window_size))

SparseSelfAttention_check(N, C, heads, window_size) ==
    IF 3 * heads * (C \div heads) # 3 * C
    THEN Raise("RuntimeError", <<"shape is invalid for input of size ", ToString(N * 3 * C)>>)
    ELSE IF N % window_size # 0
    THEN WindowError(N, window_size)
    ELSE Return(N)

(***************************************************************************)
(* ConvolutionalTransformerBlock.forward: x + attn(norm1(x)), then         *)
(* x + mlp(norm2(x)); checkpoint() only re-runs the same function.         *)
(***************************************************************************)
ConvolutionalTransformerBlock_forward(cfg, theta, t) ==
    LET chk == SparseSelfAttention_check(t.n, t.c, num_heads, cfg.window_size)
    IN  IF chk.kind = "raise" THEN chk
        ELSE LET a == Add(t.v, Affine(theta, Affine(theta, Affine(theta, t.v))))
                 m == Add(a, Affine(theta, Affine(theta, Affine(theta, a))))
             IN  Return([t EXCEPT !.v = m])

(***************************************************************************)
(* DropBlock2D.forward(x) with the outcome of torch.rand(...) < gamma      *)
(* given as mask (a Boolean per position).  rand tells whether the random  *)
(* mask was drawn.                                                         *)
(***************************************************************************)
Pooled(mask, j) ==
    \E i \in Grid : i >= j - (block_size \div 2) /\ i <= j - (block_size \div 2) + block_size - 1
                    /\ mask[i]

Keep(mask) == [j \in Grid |-> IF Pooled(mask, j) THEN 0 ELSE 1]

DropBlock2D_always(self, x, mask) ==
    IF self.drop_prob = 0
    THEN [out |-> x, rand |-> FALSE]
    ELSE LET keep == Keep(mask)
             total == SumTo(keep, GridW)
         IN  [out |-> [x EXCEPT !.v = [j \in Grid |->
                          IF total = 0 \/ x.v[j] = NaN THEN NaN
                          ELSE (x.v[j] * keep[j] * GridW) \div total]],
              rand |-> TRUE]

DropBlock2D_forward(self, x, mask) ==
    IF ~self.training \/ self.drop_prob = 0
    THEN [out |-> x, rand |-> FALSE]
    ELSE LET keep == Keep(mask)
             total == SumTo(keep, GridW)
         IN  [out |-> [x EXCEPT !.v = [j \in Grid |->
                          IF total = 0 \/ x.v[j] = NaN THEN NaN
                          ELSE (x.v[j] * keep[j] * GridW) \div total]],
              rand |-> TRUE]

Masks == [Grid -> BOOLEAN]
NoMask == [j \in Grid |-> FALSE]

\* the masks torch.rand can produce for one DropBlock2D call
MaskChoices(self) == IF ~self.training \/ self.drop_prob = 0 THEN {NoMask} ELSE Masks

(***************************************************************************)
(* LeukemiaCvTModel: one stage of forward (embed, transformer, fold back   *)
(* to [b, c, h, w], SE, DropBlock), and the classification head.           *)
(***************************************************************************)
DropBlockOf(model) == [training |-> model.training, drop_prob |-> drop_prob]

Stage_forward(cfg, model, x, mask) ==
    LET e == ConvolutionalTokenEmbedding_forward(cfg, model.theta, x)
    IN  IF e.kind = "raise" THEN e
        ELSE LET t == ConvolutionalTransformerBlock_forward(cfg, model.theta, e.value)
             IN  IF t.kind = "raise" THEN t
                 ELSE LET folded == [b |-> x.b, c |-> cfg.cout, h |-> e.value.h,
                                     w |-> e.value.w, v |-> t.value.v]
                          se == SEBlock_forward(model.theta, folded)
                          d == DropBlock2D_forward(DropBlockOf(model), se, mask)
                      IN  Return(d.out) @@ [rand |-> d.rand, dropIn |-> se]

\* x3.mean(dim=(2, 3)); head = LayerNorm, Linear(192, num_classes)
Head_forward(model, x) ==
    LET pooled == IF HasNaN(x.v) THEN NaN ELSE SumTo(x.v, GridW) \div GridW
    IN  Return([b |-> x.b, classes |-> num_classes,
                logits |-> [k \in 0..(num_classes - 1) |->
                              IF pooled = NaN THEN NaN
                              ELSE ((model.theta + k) * pooled + k) % 5]])

LeukemiaCvTModel_forward(model, x, masks) ==
    LET s1 == Stage_forward(Stage1Cfg, model, x, masks[1])
    IN  IF s1.kind = "raise" THEN s1
        ELSE LET s2 == Stage_forward(Stage2Cfg, model, s1.value, masks[2])
             IN  IF s2.kind = "raise" THEN s2
                 ELSE LET s3 == Stage_forward(Stage3Cfg, model, s2.value, masks[3])
                      IN  IF s3.kind = "raise" THEN s3
                          ELSE Head_forward(model, s3.value)
                               @@ [rand |-> s1.rand \/ s2.rand \/ s3.rand,
                                   dropIdentity |-> /\ s1.value = s1.dropIn
                                                    /\ s2.value = s2.dropIn
                                                    /\ s3.value = s3.dropIn]

(***************************************************************************)
(* predict.py: LeukemiaPredictor.                                          *)
(***************************************************************************)
class_names == <<"Healthy", "Leukemia">>

\* nn.Module() starts in training mode
LeukemiaCvTModel_init(classes) == [training |-> TRUE, theta |-> 0, classes |-> classes]

load_state_dict(model, state_dict) == [model EXCEPT !.theta = state_dict]

eval(model) == [model EXCEPT !.training = FALSE]

_load_model(state_dict) ==
    eval(load_state_dict(LeukemiaCvTModel_init(num_classes), state_dict))

\* utils.get_inference_transform(): resize to size x size, to tensor, normalise
get_inference_transform(size) == [size |-> size]

LeukemiaPredictor_init(state_dict, size) ==
    [kind |-> "LeukemiaPredictor",
     model |-> _load_model(state_dict),
     transform |-> get_inference_transform(size),
     class_names |-> class_names]

\* Image.open(BytesIO(image_bytes)).convert("RGB"): the first byte is the
\* format's magic number (BMP 66, PNG 137, JPEG 255), the second the picture
Magic == {66, 137, 255}

Image_open(image_bytes) ==
    IF Len(image_bytes) >= 2 /\ image_bytes[1] \in Magic
    THEN Return([mode |-> "RGB", px |-> image_bytes[2]])
    ELSE Raise("UnidentifiedImageError", <<"cannot identify image file">>)

\* self.transform(image).unsqueeze(0): a [1, 3, size, size] tensor
Transform(transform, image) ==
    [b |-> 1, c |-> 3, h |-> transform.size, w |-> transform.size,
     v |-> [j \in Grid |-> (image.px + j) % ValMod]]

\* e^l in thousandths, for the logits the head can give
ExpMilli(l) ==
    CASE l = 0 -> 1000
      [] l = 1 -> 2718
      [] l = 2 -> 7389
      [] l = 3 -> 20086
      [] l = 4 -> 54598

\* torch.softmax(outputs, dim=1)[0], in thousandths
Softmax(logits) ==
    IF \E k \in DOMAIN logits : logits[k] = NaN
    THEN [k \in DOMAIN logits |-> NaN]
    ELSE LET total == ExpMilli(logits[0]) + ExpMilli(logits[1])
         IN  [k \in DOMAIN logits |-> (ExpMilli(logits[k]) * 1000) \div total]

ArgmaxLowest(p) ==
    IF p[0] = NaN THEN 0
    ELSE IF p[1] = NaN THEN 1
    ELSE IF p[1] < p[0] THEN 1 ELSE 0

\* torch.argmax: the first index of the greatest value (NaN counts as greatest)
Argmax(p) ==
    IF p[0] = NaN THEN 0
    ELSE IF p[1] = NaN THEN 1
    ELSE IF p[1] > p[0] THEN 1 ELSE 0

\* {name: prob.item() for name, prob in zip(self.class_names, probabilities)}
ZipDict(names, p) ==
    LET n == IF Len(names) < Cardinality(DOMAIN p) THEN Len(names) ELSE Cardinality(DOMAIN p)
    IN  [name \in {names[i] : i \in 1..n} |->
            p[(CHOOSE i \in 1..n : names[i] = name) - 1]]

CatchesDecodeOnly(exc) == exc.type = "UnidentifiedImageError"

\* except Exception as e
Catches(exc) == TRUE

Except(exc) ==
    IF Catches(exc)
    THEN Return([error |-> <<"Error during prediction: ">> \o exc.msg])
    ELSE exc

\* predict_image, lines 23-24
predict_image_decode(self, image_bytes) ==
    LET image == Image_open(image_bytes)
    IN  IF image.kind = "raise" THEN image
        ELSE Return(Transform(self.transform, image.value))

\* predict_image, line 27
predict_image_forward(self, tensor, masks) ==
    LeukemiaCvTModel_forward(self.model, tensor, masks)

\* predict_image, lines 28-37
predict_image_result(self, outputs) ==
    LET probabilities == Softmax(outputs.logits)
        predicted_class_idx == Argmax(probabilities)
        predicted_class_name == self.class_names[predicted_class_idx + 1]
        confidence == probabilities[predicted_class_idx]
    IN  Return([prediction |-> predicted_class_name,
                confidence |-> confidence,
                probabilities |-> ZipDict(self.class_names, probabilities)])

\* the whole call, for given outcomes of torch.rand
predict_image(self, image_bytes, masks) ==
    LET d == predict_image_decode(self, image_bytes)
    IN  IF d.kind = "raise" THEN Except(d)
        ELSE LET f == predict_image_forward(self, d.value, masks)
             IN  IF f.kind = "raise" THEN Except(f)
                 ELSE predict_image_result(self, f.value)

(***************************************************************************)
(* medhamanthan/main.py: the transport layer.                              *)
(***************************************************************************)
None == [kind |-> "None"]
Nil == [kind |-> "nil"]

Slots == 1..NumRequests

\* the state dicts the weights file can hold
StateDicts == {1, 2}

\* the size get_inference_transform() was written to resize to: the
\* network's 224, or a size whose token count is no multiple of 32
TransformSizes == {224, 100}

ImageBytes == {<<0, 1>>, <<66, 0>>, <<137, 2>>}

allowed_content_types == {"image/bmp", "image/jpeg", "image/png"}
ContentTypes == {"image/png", "text/plain"}

HTTPException(status_code, detail) == [status |-> status_code, detail |-> detail]
JSONResponse(content) == [status |-> 200, content |-> content]

\* str(e) of an HTTPException: "<status_code>: <detail>"
HTTPException_str(e) == <<ToString(e.status), ": ">> \o e.detail

NotLoadedNever(predictor) == FALSE

\* if not leukemia_predictor
NotLoaded(predictor) == predictor = None

IdleReq ==
    [pc |-> "idle", content_type |-> "", image_bytes |-> <<>>, loadedAtArrival |-> FALSE,
     tensor |-> Nil, outputs |-> Nil, result |-> Nil, response |-> Nil]

\* json.dumps(..., allow_nan=False) inside JSONResponse
JsonSerialisable(result) ==
    /\ result.confidence # NaN
    /\ \A n \in DOMAIN result.probabilities : result.probabilities[n] # NaN

RespondUnchecked(outcome) ==
    IF outcome.kind = "raise"
    THEN HTTPException(500, <<"An unexpected error occurred: ">> \o outcome.msg)
    ELSE JSONResponse(outcome.value)

\* predict_leukemia, lines 63-72, once predict_image has returned or raised
Respond(outcome) ==
    IF outcome.kind = "raise"
    THEN HTTPException(500, <<"An unexpected error occurred: ">> \o outcome.msg)
    ELSE IF "error" \in DOMAIN outcome.value
    THEN HTTPException(500, <<"An unexpected error occurred: ">>
                            \o HTTPException_str(HTTPException(500, outcome.value.error)))
    ELSE IF ~JsonSerialisable(outcome.value)
    THEN HTTPException(500, <<"An unexpected error occurred: ",
                              "Out of range float values are not JSON compliant">>)
    ELSE JSONResponse(outcome.value)

(***************************************************************************)
(* startup_event                                                           *)
(***************************************************************************)
\* lines 31-33: the weights file is looked up
StartupCheck ==
    /\ startup = "init"
    /\ \E exists \in BOOLEAN : startup' = IF exists THEN "loading" ELSE "failed"
    /\ UNCHANGED <<leukemia_predictor, req, attn, fw, db>>

\* lines 34-39: the predictor is built, and only then bound to the global;
\* torch.load or load_state_dict may reject the file
StartupLoad ==
    /\ startup = "loading"
    /\ \E loads \in BOOLEAN, file \in StateDicts, size \in TransformSizes :
          IF ~loads
          THEN /\ startup' = "failed"
               /\ UNCHANGED leukemia_predictor
          ELSE /\ startup' = "ready"
               /\ leukemia_predictor' = LeukemiaPredictor_init(file, size)
    /\ UNCHANGED <<req, attn, fw, db>>

(***************************************************************************)
(* predict_leukemia, one request per slot                                  *)
(***************************************************************************)
\* lines 53-61: the readiness gate and the content-type check
Arrive(r) ==
    /\ req[r].pc = "idle"
    /\ \E ct \in ContentTypes :
          LET q == [IdleReq EXCEPT !.content_type = ct,
                                   !.loadedAtArrival = (startup = "ready")]
          IN  req' = [req EXCEPT ![r] =
                 IF NotLoaded(leukemia_predictor)
                 THEN [q EXCEPT !.pc = "done",
                                !.response = HTTPException(503,
                                    <<"Model not loaded yet. Please try again in a moment.">>)]
                 ELSE IF ct \notin allowed_content_types
                 THEN [q EXCEPT !.pc = "done",
                                !.response = HTTPException(400, <<"Invalid file type.">>)]
                 ELSE [q EXCEPT !.pc = "read"]]
    /\ UNCHANGED <<startup, leukemia_predictor, attn, fw, db>>

\* line 64: image_bytes = await file.read()
ReadFile(r) ==
    /\ req[r].pc = "read"
    /\ \E bytes \in ImageBytes :
          req' = [req EXCEPT ![r].pc = "decode", ![r].image_bytes = bytes]
    /\ UNCHANGED <<startup, leukemia_predictor, attn, fw, db>>

\* predict_image has returned or raised: the call is over
Finish(r, outcome) ==
    req' = [req EXCEPT ![r].pc = "returned", ![r].result = outcome]

\* line 65 and predict_image lines 23-24
PredictDecode(r) ==
    /\ req[r].pc = "decode"
    /\ IF leukemia_predictor = None
       THEN Finish(r, Raise("AttributeError",
                <<"'NoneType' object has no attribute 'predict_image'">>))
       ELSE LET d == predict_image_decode(leukemia_predictor, req[r].image_bytes)
            IN  IF d.kind = "raise"
                THEN Finish(r, Except(d))
                ELSE req' = [req EXCEPT ![r].pc = "forward", ![r].tensor = d.value]
    /\ UNCHANGED <<startup, leukemia_predictor, attn, fw, db>>

\* the predictor after "with torch.no_grad(): outputs = self.model(...)":
\* forward assigns no attribute, parameter or buffer
SelfAfterForwardTrain(self) == [self EXCEPT !.model.training = TRUE]

\* a forward pass that updates a parameter or buffer
SelfAfterForwardDrift(self) == [self EXCEPT !.model.theta = (@ % 2) + 1]

SelfAfterForward(self) == self

\* predict_image lines 26-27
PredictForward(r) ==
    /\ req[r].pc = "forward"
    /\ \E masks \in [1..3 -> MaskChoices(DropBlockOf(leukemia_predictor.model))] :
          LET f == predict_image_forward(leukemia_predictor, req[r].tensor, masks)
          IN  IF f.kind = "raise"
              THEN Finish(r, Except(f))
              ELSE req' = [req EXCEPT ![r].pc = "post", ![r].outputs = f]
    /\ leukemia_predictor' = SelfAfterForward(leukemia_predictor)
    /\ UNCHANGED <<startup, attn, fw, db>>

\* predict_image lines 28-37
PredictResult(r) ==
    /\ req[r].pc = "post"
    /\ Finish(r, predict_image_result(leukemia_predictor, req[r].outputs.value))
    /\ UNCHANGED <<startup, leukemia_predictor, attn, fw, db>>

\* lines 67-72
SendResponse(r) ==
    /\ req[r].pc = "returned"
    /\ req' = [req EXCEPT ![r].pc = "done", ![r].response = Respond(req[r].result)]
    /\ UNCHANGED <<startup, leukemia_predictor, attn, fw, db>>

\* the request is over; the slot takes the next one
NextRequest(r) ==
    /\ req[r].pc = "done"
    /\ req' = [req EXCEPT ![r] = IdleReq]
    /\ UNCHANGED <<startup, leukemia_predictor, attn, fw, db>>

Handle(r) ==
    \/ Arrive(r)
    \/ ReadFile(r)
    \/ PredictDecode(r)
    \/ PredictForward(r)
    \/ PredictResult(r)
    \/ SendResponse(r)
    \/ NextRequest(r)

InitServer ==
    /\ startup = "init"
    /\ leukemia_predictor = None
    /\ req = [r \in Slots |-> IdleReq]

Init ==
    /\ InitServer
    /\ attn = Nil
    /\ fw = Nil
    /\ db = Nil

Next ==
    \/ StartupCheck
    \/ StartupLoad
    \/ \E r \in Slots : Handle(r)

Spec == Init /\ [][Next]_vars

(***************************************************************************)
(* Properties of the service (specification Spec).                         *)
(***************************************************************************)
Called(r) == req[r].result # Nil
Returned(r) == Called(r) /\ req[r].result.kind = "return"
Failed(r) == Returned(r) /\ "error" \in DOMAIN req[r].result.value
Succeeded(r) == Returned(r) /\ "error" \notin DOMAIN req[r].result.value

NoMasks == [k \in 1..3 |-> NoMask]

\* the forward pass fails on this tensor whatever torch.rand gives
ForwardFails(self, tensor) ==
    \A masks \in [1..3 -> MaskChoices(DropBlockOf(self.model))] :
        predict_image_forward(self, tensor, masks).kind = "raise"

\* C1: predict_image never raises to its caller; when decoding, preprocessing
\* or the forward pass fails (the window-divisibility ValueError included) the
\* result's only key is error; error never comes with prediction, confidence
\* or probabilities.
C1_PredictNeverRaises ==
    \A r \in Slots : Called(r) =>
        /\ req[r].result.kind = "return"
        /\ \/ DOMAIN req[r].result.value = {"error"}
           \/ DOMAIN req[r].result.value = {"prediction", "confidence", "probabilities"}
        /\ LET d == predict_image_decode(leukemia_predictor, req[r].image_bytes)
           IN  (d.kind = "raise" \/ ForwardFails(leukemia_predictor, d.value))
                   => DOMAIN req[r].result.value = {"error"}

C1_Witness ==
    \E r \in Slots :
        /\ Failed(r)
        /\ req[r].tensor # Nil
        /\ req[r].result.value.error[2] = "Input sequence length N ("

\* C3: in a successful result, prediction is the label at the argmax index of
\* the probability vector (index 0 Healthy, index 1 Leukemia), confidence is
\* probabilities[prediction], and probabilities has exactly the known labels.
C3_PredictionIsArgmax ==
    \A r \in Slots : Succeeded(r) =>
        LET v == req[r].result.value
            p == Softmax(req[r].outputs.value.logits)
        IN  /\ DOMAIN v.probabilities = {"Healthy", "Leukemia"}
            /\ v.probabilities["Healthy"] = p[0]
            /\ v.probabilities["Leukemia"] = p[1]
            /\ v.prediction = IF p[1] > p[0] THEN "Leukemia" ELSE "Healthy"
            /\ v.confidence = v.probabilities[v.prediction]

C3_Witness ==
    \E r \in Slots :
        /\ Succeeded(r)
        /\ req[r].result.value.prediction = "Leukemia"
        /\ req[r].result.value.confidence > req[r].result.value.probabilities["Healthy"]

\* C4: a /predict request that arrives before loading has completed, or after
\* it failed, gets the 503 response and the predictor is never invoked for it;
\* no prediction is returned unless loading completed.
C4_ReadinessGate ==
    /\ \A r \in Slots : (req[r].pc # "idle" /\ ~req[r].loadedAtArrival) =>
          /\ req[r].pc = "done"
          /\ req[r].response.status = 503
          /\ req[r].tensor = Nil /\ req[r].outputs = Nil /\ req[r].result = Nil
    /\ \A r \in Slots : (Called(r) \/ (req[r].response # Nil /\ req[r].response.status = 200))
          => startup = "ready" /\ req[r].loadedAtArrival

C4_Witness ==
    \E r \in Slots :
        /\ startup = "loading"
        /\ req[r].pc = "done"
        /\ req[r].content_type \in allowed_content_types
        /\ req[r].response.status = 503

C8_RunAlone ==
    \A r \in Slots : Called(r) =>
        req[r].result = predict_image(leukemia_predictor, req[r].image_bytes, NoMasks)

\* C8: every step of a predict_image call, successful or failing, leaves the
\* predictor (parameters, inference mode, transform, labels) unchanged, and
\* under any interleaving of calls each call returns what it returns when run
\* alone.
C8_ReadOnly ==
    [](C8_RunAlone) /\ [][leukemia_predictor # None => leukemia_predictor' = leukemia_predictor]_vars

C8_Witness ==
    \E r1, r2 \in Slots :
        /\ r1 # r2
        /\ req[r1].pc = "post" /\ req[r2].pc = "forward"
        /\ req[r1].image_bytes # req[r2].image_bytes

RECURSIVE IsSuffix(_, _)
IsSuffix(s, t) ==
    IF Len(s) > Len(t) THEN FALSE
    ELSE IF Len(s) = Len(t) THEN s = t
    ELSE IsSuffix(s, Tail(t))

\* C10: a predictor result holding error is answered with an HTTP 500 that
\* carries the message, never with a success JSON response; a success JSON
\* response is sent only for a result without error.
C10_ErrorKeyChecked ==
    \A r \in Slots : (req[r].pc = "done" /\ Called(r)) =>
        /\ Failed(r) => /\ req[r].response.status = 500
                        /\ "content" \notin DOMAIN req[r].response
                        /\ IsSuffix(req[r].result.value.error, req[r].response.detail)
        /\ req[r].response.status = 200 =>
                        /\ Succeeded(r)
                        /\ req[r].response.content = req[r].result.value

C10_Witness ==
    \E r \in Slots :
        /\ req[r].pc = "done"
        /\ Failed(r)
        /\ req[r].response.status = 500

(***************************************************************************)
(* SparseSelfAttention.forward on its own (specification SpecAttn).        *)
(*                                                                         *)
(* The entries of attn @ v are kept symbolic: Attended(h, n, d, W) is      *)
(* component d of head h's attention result for token n, a weighted sum    *)
(* over the tokens of n's window.  Tokens, heads and components count      *)
(* from 0, as in the code.                                                 *)
(***************************************************************************)
Attended(h, n, d, window_size) ==
    [head |-> h, tok |-> n, d |-> d,
     deps |-> {m \in (window_size * (n \div window_size))
                       ..(window_size * (n \div window_size) + window_size - 1) : TRUE}]

\* (attn @ v).reshape(B, N, C): entry [i, c] is the entry at row-major offset
\* i * C + c of the contiguous [heads, N, hd] array
Reshape(N, C, heads, window_size) ==
    LET hd == C \div heads
    IN  [i \in 0..(N - 1) |-> [c \in 0..(C - 1) |->
            LET f == i * C + c
            IN  Attended(f \div (N * hd), (f % (N * hd)) \div hd, f % hd, window_size)]]

SparseSelfAttention_forward(self, N, C) ==
    LET chk == SparseSelfAttention_check(N, C, self.num_heads, self.window_size)
    IN  IF chk.kind = "raise" THEN chk
        ELSE Return(Reshape(chk.value, C, self.num_heads, self.window_size))

\* the sequence lengths, window sizes, widths and head counts tried
TokenCounts == (1..MaxTokens) \cup {100}
WindowSizes == (1..MaxWindow) \cup {32}
Dims == {4, 6, 8}
HeadCounts == {1, 2, num_heads}

InitAttn ==
    /\ InitServer
    /\ fw = Nil
    /\ db = Nil
    /\ attn \in [pc : {"call"}, N : TokenCounts, dim : Dims,
                 self : [num_heads : HeadCounts, window_size : WindowSizes],
                 result : {Nil}]

AttnForward ==
    /\ attn.pc = "call"
    /\ attn' = [attn EXCEPT !.pc = "done",
                            !.result = SparseSelfAttention_forward(attn.self, attn.N, attn.dim)]
    /\ UNCHANGED <<startup, leukemia_predictor, req, fw, db>>

NextAttn == AttnForward

SpecAttn == InitAttn /\ [][NextAttn]_vars

AttnDone == attn # Nil /\ attn.pc = "done"
AttnDivisible == attn.N % attn.self.window_size = 0

\* C2: the unit fails for every N that is no multiple of the window size
\* (N = 100 with window 32 for one), returning nothing and neither truncating
\* nor padding; for a multiple it does not raise the divisibility error.
C2_RejectsIndivisible ==
    AttnDone =>
        /\ ~AttnDivisible => attn.result.kind = "raise"
        /\ AttnDivisible => ~(attn.result.kind = "raise" /\ attn.result.type = "ValueError")
        /\ attn.result.kind = "return" =>
              /\ AttnDivisible
              /\ DOMAIN attn.result.value = 0..(attn.N - 1)

C2_Witness ==
    /\ AttnDone
    /\ attn.N = 100 /\ attn.self.window_size = 32 /\ attn.self.num_heads = num_heads
    /\ attn.result.kind = "raise" /\ attn.result.type = "ValueError"

\* C9: in the unit as the blocks build it (num_heads = 4), with N a multiple of W, the pre-projection output row at position i
\* is the concatenation over heads of token i's attention result, and so
\* depends only on tokens of window floor(i / W).
C9_RowIsOwnToken ==
    (AttnDone /\ attn.result.kind = "return" /\ attn.self.num_heads = num_heads) =>
        \A i \in DOMAIN attn.result.value : \A c \in DOMAIN attn.result.value[i] :
            LET e == attn.result.value[i][c]
                hd == attn.dim \div attn.self.num_heads
            IN  /\ e.tok = i
                /\ e.head = c \div hd
                /\ e.d = c % hd
                /\ \A m \in e.deps : m \div attn.self.window_size = i \div attn.self.window_size

(***************************************************************************)
(* LeukemiaCvTModel.forward on its own, stage by stage (specification      *)
(* SpecModel).                                                             *)
(***************************************************************************)
ImageSizes == {100, 112, 224}
Channels == {1, in_channels}

InitModel ==
    /\ InitServer
    /\ attn = Nil
    /\ db = Nil
    /\ \E b \in 1..MaxBatch, c \in Channels, h \in ImageSizes, w \in ImageSizes,
          px \in 0..1, theta \in StateDicts, training \in BOOLEAN :
          fw = [pc |-> "stage1",
                model |-> [LeukemiaCvTModel_init(num_classes) EXCEPT
                              !.theta = theta, !.training = training],
                input |-> [b |-> b, c |-> c, h |-> h, w |-> w],
                x |-> [b |-> b, c |-> c, h |-> h, w |-> w,
                       v |-> [j \in Grid |-> (px + j) % ValMod]],
                tokens |-> <<>>,
                result |-> Nil]

\* forward, lines 143-163: one stage
FwStage(pc, cfg, next) ==
    /\ fw.pc = pc
    /\ \E mask \in MaskChoices(DropBlockOf(fw.model)) :
          LET s == Stage_forward(cfg, fw.model, fw.x, mask)
              e == ConvolutionalTokenEmbedding_forward(cfg, fw.model.theta, fw.x)
          IN  IF s.kind = "raise"
              THEN fw' = [fw EXCEPT !.pc = "done", !.result = s,
                             !.tokens = IF e.kind = "raise" THEN @ ELSE Append(@, e.value.n)]
              ELSE fw' = [fw EXCEPT !.pc = next, !.x = s.value,
                                    !.tokens = Append(@, e.value.n)]
    /\ UNCHANGED <<startup, leukemia_predictor, req, attn, db>>

FwStage1 == FwStage("stage1", Stage1Cfg, "stage2")
FwStage2 == FwStage("stage2", Stage2Cfg, "stage3")
FwStage3 == FwStage("stage3", Stage3Cfg, "head")

\* forward, lines 166-168
FwHead ==
    /\ fw.pc = "head"
    /\ fw' = [fw EXCEPT !.pc = "done", !.result = Head_forward(fw.model, fw.x)]
    /\ UNCHANGED <<startup, leukemia_predictor, req, attn, db>>

NextModel == FwStage1 \/ FwStage2 \/ FwStage3 \/ FwHead

SpecModel == InitModel /\ [][NextModel]_vars

WindowSizeOf(k) == <<Stage1Cfg, Stage2Cfg, Stage3Cfg>>[k].window_size

FwValidInput == fw # Nil /\ fw.input.c = 3 /\ fw.input.h = 224 /\ fw.input.w = 224

\* C5: for an input of shape [B, 3, 224, 224] forward returns logits of shape
\* [B, 2] and never the window-divisibility error: the token count of each of
\* the three embedders is a multiple of its stage's window size (32, 32, 14).
C5_ValidInputGivesLogits ==
    FwValidInput =>
        /\ \A k \in 1..Len(fw.tokens) : fw.tokens[k] % WindowSizeOf(k) = 0
        /\ fw.pc = "done" =>
              /\ fw.result.kind = "return"
              /\ Len(fw.tokens) = 3
              /\ fw.result.value.b = fw.input.b
              /\ fw.result.value.classes = num_classes
              /\ DOMAIN fw.result.value.logits = 0..(num_classes - 1)

C5_Witness ==
    /\ FwValidInput
    /\ fw.input.b = MaxBatch
    /\ fw.pc = "done"
    /\ fw.tokens = <<50176, 12544, 784>>
    /\ fw.result.kind = "return"

(***************************************************************************)
(* DropBlock2D.forward on its own, beside the service with one request     *)
(* slot (specification SpecDrop).                                          *)
(***************************************************************************)
DropCall ==
    /\ db = Nil
    /\ \E training \in BOOLEAN, p \in {0, drop_prob}, x \in [Grid -> 0..1] :
          LET self == [training |-> training, drop_prob |-> p]
          IN  \E mask \in MaskChoices(self) :
                 db' = [self |-> self, x |-> [b |-> 1, c |-> 1, h |-> 1, w |-> GridW, v |-> x],
                        call |-> DropBlock2D_forward(self, [b |-> 1, c |-> 1, h |-> 1,
                                                            w |-> GridW, v |-> x], mask)]
    /\ UNCHANGED <<startup, leukemia_predictor, req, attn, fw>>

NextDrop ==
    \/ DropCall
    \/ StartupCheck
    \/ StartupLoad
    \/ Handle(1)

SpecDrop == Init /\ [][NextDrop]_vars

\* C6: DropBlock2D.forward returns its input unchanged, drawing no random
\* mask, whenever the module is not in training mode or drop_prob is 0; the
\* predictor's model is put in inference mode at load and stays there, so
\* every DropBlock2D of every predict_image call is such an identity.
C6_DropBlockIdentity ==
    /\ (db # Nil /\ (~db.self.training \/ db.self.drop_prob = 0)) =>
          /\ db.call.out = db.x
          /\ ~db.call.rand
    /\ leukemia_predictor # None => ~leukemia_predictor.model.training
    /\ \A r \in Slots : req[r].outputs # Nil =>
          /\ ~req[r].outputs.rand
          /\ req[r].outputs.dropIdentity

C6_Witness ==
    /\ db # Nil /\ db.self.training /\ db.self.drop_prob = 0
    /\ \E j \in Grid : db.x.v[j] # 0
    /\ req[1].outputs # Nil /\ req[1].pc = "returned"

====
